---- MODULE Spec2Model ----
(***************************************************************************)
(* Model of the interview-assistant backend (src/main.py,                  *)
(* src/utils/interview.py).                                                *)
(*                                                                         *)
(* Scheduling.  Every endpoint of src/main.py is an `async def` handler    *)
(* that runs on the server's single event loop.  A handler gives up the    *)
(* loop only at an `await`; everything between two awaits (including the   *)
(* synchronous call of handle_interview and every blocking network call)   *)
(* runs without any other handler interleaving.  The model therefore keeps *)
(* one running handler (pc and its locals) and a count of handlers parked  *)
(* at their first await.                                                   *)
(*                                                                         *)
(* Inputs.  The content of a request, the answers of the external          *)
(* services (storage, transcription, generation, synthesis, codec,         *)
(* channel APIs) and the sizes of received files are drawn with \E at the  *)
(* step that reads them.  Network calls may fail, within the budget of     *)
(* MaxFaulty; operations on the local file system (open, write, os.remove) *)
(* are taken to succeed.                                                   *)
(***************************************************************************)
EXTENDS Integers, Sequences, FiniteSets, TLC

VARIABLES
    env,                \* configured secrets (module-level os.getenv results)
    processed_messages, \* main.py: the dedup set
    disk,               \* local files under /tmp: set of [id, ext, size]
    s3,                 \* keys of the objects in the configured bucket
    nuuid,              \* number of uuid4() values drawn so far
    waiting,            \* handlers parked at their first await
    arrived,            \* requests accepted so far
    pc,                 \* position of the running handler
    h,                  \* locals of the running handler
    pl,                 \* frame of handle_interview (position and locals)
    presult,            \* what handle_interview returned to its caller
    ops,                \* external calls made by the current pipeline call
    parked,             \* frames of handlers suspended at a later await
    hist                \* budgets of the run and observations about it

vars == <<env, processed_messages, disk, s3, nuuid, waiting, arrived, pc, h,
          pl, presult, ops, parked, hist>>

(***************************************************************************)
(* Bounds of the model.                                                    *)
(***************************************************************************)
MaxCalls == 2          \* calls of handle_interview in SpecPipeline
MaxRequests == 2       \* requests accepted by the server in Spec
MaxEvents == 2         \* webhook events read, over all deliveries
MaxAttach == 2         \* attachments read from one Messenger event
MaxAudio == 2          \* audio inputs received, over all requests
MaxUnset == 1          \* environment variables left unset
MaxFaulty == 1         \* inputs during which the external services may fail
MaxSlowPolls == 1      \* polls a healthy transcription job leaves unfinished
UuidBlock == 8         \* uuid4() values set aside for each pipeline call

(***************************************************************************)
(* Values.                                                                 *)
(***************************************************************************)
None == "None"                      \* Python None where a string is expected
NoPath == [id |-> 0, ext |-> ""]    \* Python None where a local path is expected
NoKey == <<>>                       \* Python None where an S3 key is expected
NoUrl == <<>>                       \* absent "audio_url"
NoUri == [scheme |-> "", netloc |-> "", path |-> <<>>]   \* no TranscriptFileUri
NoResponse == [text |-> None, audio_url |-> NoUrl]

\* Strings are kept whole except where the code splits them: an S3 key, a
\* URI path and a URL are the list str.split("/") gives ("" is <<"">>).
Truthy(s) == s \notin {None, ""}
TruthyPath(p) == p # NoPath
TruthyKey(k) == k \notin {NoKey, <<"">>}
TruthyUrl(u) == u \notin {NoUrl, <<"">>}

bucket_name == "chatbotbucket-vkt"
OtherBucket == "other-bucket"
RegionHost == "s3.ap-southeast-2.amazonaws.com"
VirtualHost == "chatbotbucket-vkt.s3.ap-southeast-2.amazonaws.com"
ForeignHost == "example.com"
\* A host outside the storage service whose name begins like a regional
\* endpoint of it.
LookalikeHost == "s3.ap-southeast-2.amazonaws.com.example.net"

Path(id, ext) == [id |-> id, ext |-> ext]
File(p, size) == [id |-> p.id, ext |-> p.ext, size |-> size]
Exists(p) == \E f \in disk : f.id = p.id /\ f.ext = p.ext
GetSize(p) == (CHOOSE f \in disk : f.id = p.id /\ f.ext = p.ext).size
Remove(d, p) == {f \in d : ~(f.id = p.id /\ f.ext = p.ext)}
\* `if p and os.path.exists(p): os.remove(p)`
RemoveIfSet(d, p) == IF TruthyPath(p) THEN Remove(d, p) ELSE d

\* f"audio/{uuid}.{ext}", f"transcribe_{uuid}", "<job>.json",
\* f"audio/output/{uuid}.ogg"
AudioKey(id, ext) == <<"audio", ToString(id) \o "." \o ext>>
JobName(id) == "transcribe_" \o ToString(id)
JobKey(job) == <<job \o ".json">>
OutputKey(id) == <<"audio", "output", ToString(id) \o ".ogg">>
PublicUrl(key) == <<"https:", "", bucket_name \o ".s3.ap-southeast-2.amazonaws.com">> \o key
\* An object of the bucket that no invocation created.
ForeignKey == <<"reports", "2024.json">>
\* The key "/<key>": a key may begin with the separator.
SlashKey(key) == <<"">> \o key

(***************************************************************************)
(* Result location of a transcription job (interview.py 125-142).          *)
(* A URI is what urllib.parse.urlparse gives: scheme, netloc and the path, *)
(* the path kept as path.split("/").                                       *)
(***************************************************************************)
UriForms == {"s3", "https-path", "https-virtual", "http"}

\* The URI a provider writes for object `key` of `bucket` in each form.
Render(form, bucket, key) ==
    CASE form = "s3" ->
           [scheme |-> "s3", netloc |-> bucket, path |-> <<"">> \o key]
      [] form = "https-path" ->
           [scheme |-> "https", netloc |-> RegionHost, path |-> <<"", bucket>> \o key]
      [] form = "https-virtual" ->
           [scheme |-> "https",
            netloc |-> IF bucket = bucket_name THEN VirtualHost ELSE ForeignHost,
            path |-> <<"">> \o key]
      [] OTHER ->
           [scheme |-> "http", netloc |-> RegionHost, path |-> <<"", bucket>> \o key]

\* str.lstrip("/") on a split string: the leading empty pieces go, the last
\* piece stays ("/" is <<"", "">> and becomes <<"">>).
RECURSIVE LStripSlash(_)
LStripSlash(p) ==
    IF Len(p) > 1 /\ p[1] = "" THEN LStripSlash(Tail(p)) ELSE p

\* "/".join(parts): the split form of the joined string.
JoinSlash(parts) == IF parts = <<>> THEN <<"">> ELSE parts

\* `"amazonaws.com" in netloc`: a substring test.
ContainsAmazonaws(netloc) == netloc \in {RegionHost, VirtualHost, LookalikeHost}
\* re.match(r"s3\.([a-z0-9-]+)\.amazonaws\.com", netloc): the pattern is
\* matched at the start of netloc and need not reach its end.
NetlocMatches(netloc) == netloc \in {RegionHost, LookalikeHost}

\* Lines 126-137: ok is FALSE where the code raises; bucket and key are what
\* the locals transcript_bucket and transcript_key hold afterwards.
ParseUri(u) ==
    IF u.scheme = "s3"
    THEN [ok |-> TRUE, bucket |-> u.netloc, key |-> LStripSlash(u.path)]
    ELSE IF u.scheme = "https" /\ ContainsAmazonaws(u.netloc)
    THEN IF ~NetlocMatches(u.netloc) \/ Len(u.path) < 2
         THEN [ok |-> FALSE, bucket |-> None, key |-> NoKey]
         ELSE [ok |-> TRUE, bucket |-> u.path[2],
               key |-> JoinSlash(SubSeq(u.path, 3, Len(u.path)))]
    ELSE [ok |-> FALSE, bucket |-> None, key |-> NoKey]

\* Line 140: `if transcript_bucket != bucket_name: raise`
BucketAcceptsAll(b) == TRUE

BucketMatches(b) == b = bucket_name

\* What get_transcription_job can report as Transcript.TranscriptFileUri: a
\* URI only for a COMPLETED job.  OwnUris is the job's own output in each
\* form, StrayUris what a misbehaving service may report in its place.
OwnUris(job) == {Render(f, bucket_name, JobKey(job)) : f \in UriForms}
StrayUris(job) ==
    {NoUri}
    \cup {Render(f, OtherBucket, JobKey(job)) : f \in {"s3", "https-path"}}
    \cup {Render("s3", b, ForeignKey) : b \in {bucket_name, OtherBucket}}
    \cup {Render(f, bucket_name, SlashKey(JobKey(job))) : f \in {"s3", "https-path"}}
    \cup {[Render("https-path", bucket_name, JobKey(job))
             EXCEPT !.netloc = LookalikeHost]}

(***************************************************************************)
(* handle_interview (interview.py 60-256).                                 *)
(***************************************************************************)
max_attempts == 60      \* line 104
max_retries == 3        \* line 145
MinAudioBytes == 1000   \* line 79 (and line 53 for the synthesized file)

Lower(e) == CASE e = "WAV" -> "wav" [] e = "MP3" -> "mp3" [] OTHER -> e
supported_formats == {"wav", "mp3"}

PlIdle ==
    [ppc |-> "idle", audio_path |-> NoPath, text_input |-> None,
     audio_key |-> NoKey, transcript_file |-> NoPath, output_audio |-> NoPath,
     output_ogg |-> NoPath, transcript_key |-> NoKey, transcript_bucket |-> None,
     job_name |-> None, job_status |-> None, attempt |-> 0, question |-> None,
     prompt |-> <<>>, generated |-> 0, queries |-> 0, settled |-> FALSE,
     checks |-> 0, head |-> "",
     answer |-> None, response_data |-> NoResponse, raised |-> FALSE]

\* The call: lines 60-66.
PlEntry(ap, ti) ==
    [PlIdle EXCEPT !.ppc = "validate", !.audio_path = ap, !.text_input = ti]

NoResult == [status |-> "none", response |-> NoResponse]
NoOps == {}
Op(name, bucket, key) == [op |-> name, bucket |-> bucket, key |-> key]

\* `raise` anywhere in the try block: lines 228-230, then the finally block,
\* which reads the paths and keys of the frame and not its loop counter.
RaiseSkipsFinally(f) == [f EXCEPT !.ppc = "returned", !.raised = TRUE, !.attempt = 0]

Raise(f) == [f EXCEPT !.ppc = "cleanup", !.raised = TRUE, !.attempt = 0]

\* Lines 69-72.
InputsValid(ap, ti) ==
    /\ ~(TruthyPath(ap) /\ Truthy(ti))
    /\ ~(~TruthyPath(ap) /\ ~Truthy(ti))

\* Lines 77-83 (os.path.getsize raises for a missing file).
AudioFileValidAnySize(p) ==
    /\ Exists(p)
    /\ Lower(p.ext) \in supported_formats

AudioFileValid(p) ==
    /\ Exists(p)
    /\ ~(GetSize(p) < MinAudioBytes)
    /\ Lower(p.ext) \in supported_formats

\* Observations kept per pipeline call, cleared when a call starts.
HistAtCall(hh) ==
    [hh EXCEPT !.exhausted = FALSE, !.created = {}, !.del_failed = {},
               !.uri = NoUri]

outside == <<env, processed_messages, waiting, arrived, pc, h, parked>>

\* The external services (the object store, the transcription, model and
\* speech services, the codec tools, the channels' APIs) may fail or
\* misbehave while at most MaxFaulty inputs are handled; whether they may
\* is settled when the input is read.
Begin(hh, u) == [hh EXCEPT !.unreliable = u, !.faulty = IF u THEN @ + 1 ELSE @]
OutcomesIf(u, good, bad) == IF u THEN good \cup bad ELSE good
Outcomes(good, bad) == OutcomesIf(hist.unreliable, good, bad)

\* uuid4() never repeats a value.  Values are drawn in increasing order, and
\* the rest of a call's block is left undrawn when the call is over.
SkipUuidsToStart(n) == 0

SkipUuids(n) == ((n \div UuidBlock) + 1) * UuidBlock

PlValidate ==
    /\ pl.ppc = "validate"
    /\ pl' = IF ~InputsValid(pl.audio_path, pl.text_input)
             THEN Raise(pl)
             ELSE IF TruthyPath(pl.audio_path)
             THEN IF AudioFileValid(pl.audio_path)
                  THEN [pl EXCEPT !.ppc = "upload"]
                  ELSE Raise(pl)
             ELSE [pl EXCEPT !.ppc = "generate", !.question = pl.text_input]
    /\ UNCHANGED <<outside, disk, s3, nuuid, presult, ops, hist>>

\* Lines 86-89: s3.upload_file of the source audio.
PlUpload ==
    /\ pl.ppc = "upload"
    /\ nuuid' = nuuid + 1
    /\ LET key == AudioKey(nuuid + 1, pl.audio_path.ext) IN
       /\ ops' = ops \cup {Op("upload_file", bucket_name, key)}
       /\ \E ok \in Outcomes({TRUE}, {FALSE}) :
            IF ok
            THEN /\ s3' = s3 \cup {key}
                 /\ pl' = [pl EXCEPT !.audio_key = key, !.ppc = "start_job"]
            ELSE /\ s3' = s3
                 /\ pl' = Raise([pl EXCEPT !.audio_key = key])
    /\ UNCHANGED <<outside, disk, presult, hist>>

\* Lines 92-101: transcribe.start_transcription_job.
PlStartJob ==
    /\ pl.ppc = "start_job"
    /\ nuuid' = nuuid + 1
    /\ ops' = ops \cup {Op("start_transcription_job", bucket_name, NoKey)}
    /\ \E ok \in Outcomes({TRUE}, {FALSE}) :
         pl' = IF ok
               THEN [pl EXCEPT !.job_name = JobName(nuuid + 1), !.attempt = 0,
                               !.ppc = "poll"]
               ELSE Raise([pl EXCEPT !.job_name = JobName(nuuid + 1)])
    /\ UNCHANGED <<outside, disk, s3, presult, hist>>

\* Line 106: `while attempt < max_attempts`
LoopContinuesOneMore(a) == a <= max_attempts

LoopContinues(a) == a < max_attempts

\* Line 110: `if job_status in ["COMPLETED", "FAILED"]: break`
TerminalCompletedOnly(st) == st \in {"COMPLETED"}

Terminal(st) == st \in {"COMPLETED", "FAILED"}

\* Lines 116-117: `if job_status == "COMPLETED": time.sleep(5)`
Settles(st) == st = "COMPLETED"

\* The polls (counted from 0) that may be answered with anything but
\* IN_PROGRESS: those a healthy job may need, and the last one.
EndingPolls == (0..MaxSlowPolls) \cup {max_attempts - 1}

\* What get_transcription_job may answer at poll `a`: a healthy job ends
\* after at most MaxSlowPolls unfinished polls.
PollAnswers(a) ==
    (IF a \in EndingPolls
     THEN Outcomes({"COMPLETED"}, {"FAILED", "error"}) ELSE {})
    \cup (IF a < MaxSlowPolls
          THEN {"IN_PROGRESS"} ELSE Outcomes({}, {"IN_PROGRESS"}))

\* Lines 106-113: one turn of the poll loop, or its end; `queries` counts
\* the get_transcription_job calls of the loop.
PlPoll ==
    /\ pl.ppc = "poll"
    /\ IF LoopContinues(pl.attempt)
       THEN /\ ops' = ops \cup {Op("get_transcription_job", bucket_name, NoKey)}
            /\ UNCHANGED hist
            /\ \E r \in PollAnswers(pl.attempt) :
                 LET asked == [pl EXCEPT !.queries = @ + 1]
                 IN pl' = IF r = "error" THEN Raise(asked)
                          ELSE IF Terminal(r)
                          THEN [asked EXCEPT !.job_status = r, !.ppc = "after_poll"]
                          ELSE [asked EXCEPT !.job_status = r, !.attempt = @ + 1]
       ELSE /\ pl' = [pl EXCEPT !.ppc = "after_poll"]
            /\ hist' = [hist EXCEPT !.exhausted = TRUE]
            /\ UNCHANGED ops
    /\ UNCHANGED <<outside, disk, s3, nuuid, presult>>

\* Lines 114-142: the job's outcome, the settle delay, the result location,
\* the bucket check.  The loop is over: its count of queries is dropped.
PlAfterPoll ==
    /\ pl.ppc = "after_poll"
    /\ IF pl.job_status = "FAILED"
       THEN /\ pl' = Raise([pl EXCEPT !.queries = 0])
            /\ UNCHANGED hist
       ELSE \E u \in IF pl.job_status = "COMPLETED"
                     THEN Outcomes(OwnUris(pl.job_name), StrayUris(pl.job_name))
                     ELSE {NoUri} :
              LET r == ParseUri(u)
                  f == [pl EXCEPT !.queries = 0,
                                  !.settled = Settles(pl.job_status)]
              IN
              /\ hist' = [hist EXCEPT !.uri = u]
              /\ pl' = IF u = NoUri \/ ~r.ok
                       THEN Raise(f)
                       ELSE IF ~BucketMatches(r.bucket)
                       THEN Raise([f EXCEPT !.transcript_bucket = r.bucket,
                                            !.transcript_key = r.key])
                       ELSE [f EXCEPT !.transcript_bucket = r.bucket,
                                      !.transcript_key = r.key,
                                      !.attempt = 0, !.ppc = "head"]
    /\ UNCHANGED <<outside, disk, s3, nuuid, presult, ops>>

\* Line 151: `if e.response["Error"]["Code"] == "404"`
NotFoundOrError(r) == r \in {"404", "error"}

NotFound(r) == r = "404"

\* Lines 146-158: one turn of the existence check.  The job's own output
\* may become visible only now (it lags the job's completion).  `checks`
\* counts the head_object calls, `head` is the answer of the last one.
PlHead ==
    /\ pl.ppc = "head"
    /\ ops' = ops \cup {Op("head_object", bucket_name, pl.transcript_key)}
    /\ \E r \in Outcomes({"ok"}, {"404", "error"}) :
         /\ r = "ok" => (pl.transcript_key \in s3
                         \/ pl.transcript_key = JobKey(pl.job_name))
         /\ r = "404" => pl.transcript_key \notin s3
         /\ s3' = IF r = "ok" THEN s3 \cup {pl.transcript_key} ELSE s3
         /\ LET f == [pl EXCEPT !.checks = @ + 1, !.head = r] IN
            pl' = CASE r = "ok" -> [f EXCEPT !.ppc = "download"]
                    [] NotFound(r) ->
                         IF pl.attempt = max_retries - 1
                         THEN Raise(f)
                         ELSE [f EXCEPT !.attempt = @ + 1]
                    [] OTHER -> Raise(f)
    /\ UNCHANGED <<outside, disk, nuuid, presult, hist>>

\* Lines 161-169: download the transcript and read the question from it.
PlDownload ==
    /\ pl.ppc = "download"
    /\ nuuid' = nuuid + 1
    /\ ops' = ops \cup {Op("download_file", bucket_name, pl.transcript_key)}
    /\ LET tf == Path(nuuid + 1, "json") IN
       \E r \in Outcomes({"ok"}, {"fail", "no_transcript"}) :
         /\ disk' = IF r = "fail" THEN disk ELSE disk \cup {File(tf, 2000)}
         /\ hist' = IF r = "fail" THEN [hist EXCEPT !.uri = NoUri]
                    ELSE [hist EXCEPT !.created = @ \cup {tf}, !.uri = NoUri]
         /\ pl' = IF r = "ok"
                  THEN [pl EXCEPT !.transcript_file = tf, !.question = "Q",
                                  !.ppc = "generate"]
                  ELSE Raise([pl EXCEPT !.transcript_file = tf])
    /\ UNCHANGED <<outside, s3, presult>>

\* Line 175: the prompt is the fixed persona followed by the question (the
\* pieces of the f-string).
PromptPersonaOnly(question) == <<"You are a DevOps technical interview bot.">>

Prompt(question) == <<"You are a DevOps technical interview bot.", question>>

\* Line 192: `if audio_path:` decides whether the answer is also spoken.
WantsAudioAlways(ap) == TRUE

WantsAudio(ap) == TruthyPath(ap)

\* Lines 175-191: bedrock.invoke_model with the prompt built from question;
\* `prompt` and `generated` record what the model was asked and how often.
PlGenerate ==
    /\ pl.ppc = "generate"
    /\ ops' = ops \cup {Op("invoke_model", "", NoKey)}
    /\ \E ok \in Outcomes({TRUE}, {FALSE}) :
         LET asked == [pl EXCEPT !.prompt = Prompt(pl.question),
                                 !.generated = @ + 1]
         IN pl' = IF ~ok THEN Raise(asked)
                  ELSE [asked EXCEPT
                          !.answer = "A",
                          !.response_data = [text |-> "A", audio_url |-> NoUrl],
                          !.ppc = IF WantsAudio(pl.audio_path)
                                  THEN "synthesize" ELSE "cleanup"]
    /\ UNCHANGED <<outside, disk, s3, nuuid, presult, hist>>

\* Lines 194-201 and synthesize_speech_elevenlabs (20-58).
PlSynthesize ==
    /\ pl.ppc = "synthesize"
    /\ nuuid' = nuuid + 1
    /\ LET oa == Path(nuuid + 1, "mp3") IN
       IF ~env.elevenlabs
       THEN /\ pl' = Raise([pl EXCEPT !.output_audio = oa])
            /\ UNCHANGED <<disk, ops, hist>>
       ELSE /\ ops' = ops \cup {Op("text-to-speech", "", NoKey)}
            /\ \E r \in Outcomes({"ok"}, {"fail", "small"}) :
                 /\ disk' = CASE r = "fail" -> disk
                              [] r = "small" -> disk \cup {File(oa, MinAudioBytes - 1)}
                              [] OTHER -> disk \cup {File(oa, MinAudioBytes)}
                 /\ hist' = IF r = "fail" THEN hist
                            ELSE [hist EXCEPT !.created = @ \cup {oa}]
                 /\ pl' = IF r = "ok"
                          THEN [pl EXCEPT !.output_audio = oa, !.ppc = "convert"]
                          ELSE Raise([pl EXCEPT !.output_audio = oa])
    /\ UNCHANGED <<outside, s3, presult>>

\* Lines 205-212: the codecs the transcoding step calls: the pydub library
\* (AudioSegment), whose failure is re-raised at line 212.
CodecCallsWithTool == {"pydub", "ffmpeg"}

CodecCalls == {"pydub"}

\* Lines 204-212: MP3 to OGG/Opus with the codec library; a failed export
\* may leave a partial file behind.
PlConvert ==
    /\ pl.ppc = "convert"
    /\ nuuid' = nuuid + 1
    /\ ops' = ops \cup {Op(c, "", NoKey) : c \in CodecCalls}
    /\ LET og == Path(nuuid + 1, "ogg") IN
       \E r \in Outcomes({"ok"}, {"fail", "partial"}) :
         /\ disk' = IF r = "fail" THEN disk ELSE disk \cup {File(og, 2000)}
         /\ hist' = IF r = "fail" THEN hist
                    ELSE [hist EXCEPT !.created = @ \cup {og}]
         /\ pl' = IF r = "ok"
                  THEN [pl EXCEPT !.output_ogg = og, !.ppc = "upload_out"]
                  ELSE Raise([pl EXCEPT !.output_ogg = og])
    /\ UNCHANGED <<outside, s3, presult>>

\* Lines 215-224: upload of the reply audio and its public URL.
PlUploadOut ==
    /\ pl.ppc = "upload_out"
    /\ nuuid' = nuuid + 1
    /\ LET key == OutputKey(nuuid + 1) IN
       /\ ops' = ops \cup {Op("upload_file", bucket_name, key)}
       /\ \E ok \in Outcomes({TRUE}, {FALSE}) :
            IF ok
            THEN /\ s3' = s3 \cup {key}
                 /\ pl' = [pl EXCEPT !.response_data.audio_url = PublicUrl(key),
                                     !.ppc = "cleanup"]
            ELSE /\ s3' = s3
                 /\ pl' = Raise(pl)
    /\ UNCHANGED <<outside, disk, presult, hist>>

\* Lines 233-244: the local files the finally block removes.
LocalCleanupKeepsOgg(d, f) ==
    RemoveIfSet(RemoveIfSet(RemoveIfSet(d, f.audio_path), f.transcript_file),
                f.output_audio)

LocalCleanup(d, f) ==
    RemoveIfSet(RemoveIfSet(RemoveIfSet(RemoveIfSet(d, f.audio_path),
                                        f.transcript_file),
                            f.output_audio),
                f.output_ogg)

\* Lines 245-256: the keys the finally block asks the store to delete.
RemoteCleanupKeysAudioOnly(f) ==
    IF TruthyKey(f.audio_key) THEN {f.audio_key} ELSE {}

RemoteCleanupKeys(f) ==
    (IF TruthyKey(f.audio_key) THEN {f.audio_key} ELSE {})
    \cup (IF TruthyKey(f.transcript_key) THEN {f.transcript_key} ELSE {})

\* Lines 226-256: return or re-raise, after the finally block.  Each
\* delete_object may fail; the failure is logged and swallowed.
PlCleanup ==
    /\ pl.ppc = "cleanup"
    /\ disk' = LocalCleanup(disk, pl)
    /\ \E failed \in Outcomes({{}}, SUBSET RemoteCleanupKeys(pl)) :
         /\ s3' = s3 \ (RemoteCleanupKeys(pl) \ failed)
         /\ hist' = [hist EXCEPT !.del_failed = failed, !.uri = NoUri]
    /\ ops' = ops \cup {Op("delete_object", bucket_name, k) : k \in RemoteCleanupKeys(pl)}
    /\ presult' = IF pl.raised
                  THEN [status |-> "error", response |-> NoResponse]
                  ELSE [status |-> "ok", response |-> pl.response_data]
    /\ pl' = [pl EXCEPT !.ppc = "returned"]
    /\ UNCHANGED <<outside, nuuid>>

Pipeline ==
    \/ PlValidate
    \/ PlUpload
    \/ PlStartJob
    \/ PlPoll
    \/ PlAfterPoll
    \/ PlHead
    \/ PlDownload
    \/ PlGenerate
    \/ PlSynthesize
    \/ PlConvert
    \/ PlUploadOut
    \/ PlCleanup

(***************************************************************************)
(* handle_interview called on its own, with every shape of arguments.      *)
(***************************************************************************)
MsgIds == {"wamid.abc", "mid.xyz"}
\* The ids an event may carry: one already met, or the first one not yet met
\* (ids mean nothing to the program, so the order they appear in is fixed).
NextIds(seen) ==
    IF seen["wamid.abc"] = 0 THEN {"wamid.abc"} ELSE MsgIds

HistInit ==
    [exhausted |-> FALSE, created |-> {}, del_failed |-> {}, uri |-> NoUri,
     calls |-> 0, events |-> 0, audio |-> 0,
     unreliable |-> FALSE,                 \* the services may fail right now
     faulty |-> 0,                         \* inputs read while they might
     seen |-> [m \in MsgIds |-> 0],        \* events with this id read (up to 2)
     passes |-> [m \in MsgIds |-> 0],      \* times the id passed the dedup gate
     passArrived |-> [m \in MsgIds |-> 0], \* requests accepted when it passed
     kind |-> [m \in MsgIds |-> "none"],   \* how the event that passed was routed
     invs |-> [m \in MsgIds |-> 0],        \* handle_interview calls for the id
     sends |-> [m \in MsgIds |-> 0]]       \* channel POSTs made for the id

\* The tokens and keys read from the environment (main.py 27-31,
\* interview.py 195-196): at most MaxUnset of them are missing.
Unset(e) ==
    Cardinality({k \in {"whatsapp", "messenger", "elevenlabs", "verify"} : ~e[k]})
EnvChoices ==
    {e \in [whatsapp : BOOLEAN, messenger : BOOLEAN, elevenlabs : BOOLEAN,
             verify : BOOLEAN] :
       Unset(e) <= MaxUnset}

Rest ==
    /\ processed_messages = {}
    /\ disk = {}
    /\ s3 = {ForeignKey}
    /\ nuuid = 0
    /\ waiting = 0
    /\ arrived = 0
    /\ pc = "idle"
    /\ h = <<>>
    /\ parked = {}
    /\ pl = PlIdle
    /\ presult = NoResult
    /\ ops = NoOps
    /\ hist = HistInit

Init ==
    /\ env \in EnvChoices
    /\ Rest

\* The callers' side plays no part here: only the synthesizer's keys vary.
InitPipeline ==
    /\ env \in {e \in EnvChoices : e.whatsapp /\ e.messenger /\ e.verify}
    /\ Rest

\* A caller passes no audio, or the path of a file it has written.
CallPipeline ==
    /\ pc = "idle"
    /\ hist.calls + arrived < MaxCalls
    /\ \E withAudio \in BOOLEAN :
         IF withAudio
         THEN \E ext \in {"wav", "ogg"}, size \in {50, MinAudioBytes},
                 ti \in {None, "q"} :
                /\ nuuid' = nuuid + 1
                /\ disk' = disk \cup {File(Path(nuuid + 1, ext), size)}
                /\ pl' = PlEntry(Path(nuuid + 1, ext), ti)
         ELSE \E ti \in {None, "", "q"} :
                /\ pl' = PlEntry(NoPath, ti)
                /\ UNCHANGED <<nuuid, disk>>
    /\ pc' = "called"
    /\ presult' = NoResult
    /\ ops' = NoOps
    /\ \E u \in BOOLEAN :
         /\ u => hist.faulty < MaxFaulty
         /\ hist' = Begin([HistAtCall(hist) EXCEPT !.calls = @ + 1], u)
    /\ UNCHANGED <<env, processed_messages, s3, waiting, arrived, h, parked>>

CallReturns ==
    /\ pc = "called"
    /\ pl.ppc = "returned"
    /\ pc' = "idle"
    /\ pl' = PlIdle
    /\ presult' = NoResult
    /\ ops' = NoOps
    /\ hist' = Begin(HistAtCall(hist), FALSE)
    /\ nuuid' = SkipUuids(nuuid)
    /\ UNCHANGED <<env, processed_messages, disk, s3, waiting, arrived, h, parked>>

(***************************************************************************)
(* The server accepts a request; its handler runs up to its first await    *)
(* (main.py 71 and 134) and is parked there.                               *)
(***************************************************************************)
Arrive ==
    /\ arrived + hist.calls < MaxRequests
    /\ arrived' = arrived + 1
    /\ waiting' = waiting + 1
    /\ UNCHANGED <<env, processed_messages, disk, s3, nuuid, pc, h, pl,
                   presult, ops, parked, hist>>

\* The running handler has sent its response.
Respond ==
    /\ pc \in {"di_done", "wh_done", "vf_done"}
    /\ pc' = "idle"
    /\ h' = <<>>
    /\ hist' = Begin(hist, FALSE)
    /\ UNCHANGED <<env, processed_messages, disk, s3, nuuid, waiting, arrived,
                   pl, presult, ops, parked>>

\* handle_interview is called: the caller's frame waits in `ret`.
Invoke(ap, ti, ret) ==
    /\ pc' = ret
    /\ pl' = PlEntry(ap, ti)
    /\ presult' = NoResult
    /\ ops' = NoOps

(***************************************************************************)
(* POST /interview: interview_bot (main.py 63-108).                        *)
(***************************************************************************)
MaxUploadBytes == 10485760     \* line 88: 10 * 1024 * 1024

NoUpload == [ext |-> "", size |-> 0]        \* audio is None

\* Form(None): FastAPI gives the default for a field that is absent or empty.
FormDefault(raw) == IF raw = "" THEN None ELSE raw

\* Line 75: `not audio and not text and not question`
NothingGiven(audio, text, question) ==
    audio = NoUpload /\ ~Truthy(text) /\ ~Truthy(question)

\* Line 78: `sum(1 for x in [audio, text, question] if x is not None) > 1`
GivenCount(audio, text, question) ==
    (IF audio # NoUpload THEN 1 ELSE 0) + (IF text # None THEN 1 ELSE 0)
    + (IF question # None THEN 1 ELSE 0)

SeveralGivenNever(audio, text, question) == FALSE

SeveralGiven(audio, text, question) == GivenCount(audio, text, question) > 1

\* Line 85: `audio.filename.endswith((".wav", ".mp3"))`
ExtensionAccepted(ext) == ext \in {"wav", "mp3"}

\* Line 88: `audio.size > 10 * 1024 * 1024`
TooLarge(size) == size > MaxUploadBytes

\* An HTTPException raised inside the try block of lines 82-108 is an
\* Exception: line 106 catches it and line 108 raises status 500 in its place.
StatusFromTry(raisedStatus) == 500

DiFrame(audio, text, question) ==
    [audio |-> audio, text |-> text, question |-> question,
     temp_audio_path |-> NoPath, status |-> 0, invoked |-> FALSE,
     checked |-> FALSE]

\* Lines 64-80: the parameters are bound, the two checks made before `try`.
DiStart ==
    /\ pc = "idle"
    /\ waiting > 0
    /\ waiting' = waiting - 1
    /\ \E audio \in {NoUpload}
                     \cup IF hist.audio < MaxAudio
                          THEN [ext : {"mp3", "txt"},
                                size : {50, MinAudioBytes, MaxUploadBytes + 1}]
                          ELSE {},
          rawText \in {None, "", "t"}, rawQuestion \in {None, "", "t"},
          u \in BOOLEAN :
         LET text == FormDefault(rawText)
             question == FormDefault(rawQuestion)
             f == DiFrame(audio, text, question)
         IN /\ IF NothingGiven(audio, text, question)
                  \/ SeveralGiven(audio, text, question)
               THEN /\ h' = [f EXCEPT !.status = 422]
                    /\ pc' = "di_done"
               ELSE /\ h' = [f EXCEPT !.checked = TRUE]
                    /\ pc' = IF audio # NoUpload THEN "di_audio" ELSE "di_text"
            /\ u => hist.faulty < MaxFaulty
            /\ hist' = Begin(IF audio # NoUpload
                              THEN [hist EXCEPT !.audio = @ + 1] ELSE hist, u)
    /\ UNCHANGED <<env, processed_messages, disk, s3, nuuid, arrived, pl,
                   presult, ops, parked>>

\* Lines 83-95: extension and size checks, then the temporary file is
\* opened for writing and the handler awaits the upload's bytes.
DiAudioCheck ==
    /\ pc = "di_audio"
    /\ IF ~ExtensionAccepted(h.audio.ext) \/ TooLarge(h.audio.size)
       THEN /\ h' = [h EXCEPT !.status = StatusFromTry(422)]
            /\ pc' = "di_done"
            /\ UNCHANGED <<disk, nuuid>>
       ELSE /\ nuuid' = nuuid + 1
            /\ h' = [h EXCEPT !.temp_audio_path = Path(nuuid + 1, h.audio.ext)]
            /\ disk' = disk \cup {File(Path(nuuid + 1, h.audio.ext), 0)}
            /\ pc' = "di_read"
    /\ UNCHANGED <<env, processed_messages, s3, waiting, arrived, pl, presult,
                   ops, parked, hist>>

\* Line 95: `await audio.read()` gives up the event loop when the upload
\* was spooled to disk.
DiSuspend ==
    /\ pc = "di_read"
    /\ parked' = parked \cup {h}
    /\ pc' = "idle"
    /\ h' = <<>>
    /\ UNCHANGED <<env, processed_messages, disk, s3, nuuid, waiting, arrived,
                   pl, presult, ops, hist>>

DiResume ==
    /\ pc = "idle"
    /\ \E f \in parked :
         /\ parked' = parked \ {f}
         /\ h' = f
    /\ pc' = "di_resumed"
    /\ UNCHANGED <<env, processed_messages, disk, s3, nuuid, waiting, arrived,
                   pl, presult, ops, hist>>

\* Lines 95-96: the bytes are written and handle_interview is called.
DiCallAudio ==
    /\ pc \in {"di_read", "di_resumed"}
    /\ disk' = Remove(disk, h.temp_audio_path)
               \cup {File(h.temp_audio_path, h.audio.size)}
    /\ Invoke(h.temp_audio_path, None, "di_called")
    /\ h' = [h EXCEPT !.invoked = TRUE]
    /\ hist' = HistAtCall(hist)
    /\ UNCHANGED <<env, processed_messages, s3, nuuid, waiting, arrived, parked>>

\* Lines 102-104.
DiCallText ==
    /\ pc = "di_text"
    /\ Invoke(NoPath, IF Truthy(h.text) THEN h.text ELSE h.question, "di_called")
    /\ h' = [h EXCEPT !.invoked = TRUE]
    /\ hist' = HistAtCall(hist)
    /\ UNCHANGED <<env, processed_messages, disk, s3, nuuid, waiting, arrived,
                   parked>>

\* Lines 97-100 and 105-108: the response, after the finally block.
DiReturn ==
    /\ pc = "di_called"
    /\ pl.ppc = "returned"
    /\ disk' = RemoveIfSet(disk, h.temp_audio_path)
    /\ h' = [h EXCEPT !.status = IF presult.status = "ok" THEN 200 ELSE 500]
    /\ pc' = "di_done"
    /\ pl' = PlIdle
    /\ presult' = NoResult
    /\ ops' = NoOps
    /\ hist' = HistAtCall(hist)
    /\ nuuid' = SkipUuids(nuuid)
    /\ UNCHANGED <<env, processed_messages, s3, waiting, arrived, parked>>

(***************************************************************************)
(* POST /webhook: handle_webhook (main.py 131-302).                        *)
(* The loops over entry, changes and messages are one loop over the        *)
(* messages of the delivery; each field of a message is drawn where the    *)
(* handler reads it.                                                       *)
(***************************************************************************)
retries == 3            \* line 305: validate_audio_url(audio_url, retries=3)
MinMediaBytes == 1024   \* line 195

WhFrame(object) ==
    [object |-> object, status |-> 0, routed |-> FALSE,
     message_id |-> None, sender_id |-> None, phone_number_id |-> None,
     branch |-> "", last |-> "", passed |-> {},
     temp_audio_path |-> NoPath, temp_wav_path |-> NoPath,
     audio_path |-> NoPath, response |-> NoResponse, attempt |-> 0, natt |-> 0,
     heads |-> 0, head |-> "", valid |-> "none", audio_send |-> "none",
     sent_to |-> {}, apologies |-> 0, codecs |-> <<>>]

\* Lines 132-138 and 249: the body is parsed and the envelope recognised.
\* A body that is no JSON raises at line 134 (lines 300-302 answer 500); an
\* envelope of another kind is acknowledged at line 299.
WhStart ==
    /\ pc = "idle"
    /\ waiting > 0
    /\ waiting' = waiting - 1
    /\ \E body \in {"whatsapp_business_account", "page", "other", "not json"} :
         /\ h' = [WhFrame(body) EXCEPT
                    !.status = CASE body = "not json" -> 500
                                 [] body = "other" -> 200
                                 [] OTHER -> 0,
                    !.routed = body \in {"whatsapp_business_account", "page"}]
         /\ pc' = CASE body = "whatsapp_business_account" -> "wa_loop"
                    [] body = "page" -> "ms_loop"
                    [] OTHER -> "wh_done"
    /\ UNCHANGED <<env, processed_messages, disk, s3, nuuid, arrived, pl,
                   presult, ops, parked, hist>>

\* Lines 139-144 and 250-253: the next message of the delivery, or, after
\* the last one, line 299.
WhNext ==
    /\ pc \in {"wa_loop", "ms_loop"}
    /\ \/ /\ pc' = "wh_done"
          /\ h' = [h EXCEPT !.status = 200]
          /\ UNCHANGED hist
       \/ /\ hist.events < MaxEvents
          /\ \E m \in NextIds(hist.seen) \cup {None} :
               /\ h' = [h EXCEPT !.message_id = m, !.last = "", !.heads = 0,
                                 !.head = "", !.valid = "none",
                                 !.audio_send = "none", !.sent_to = {},
                                 !.apologies = 0, !.codecs = <<>>]
               /\ hist' = Begin([hist EXCEPT
                                   !.events = @ + 1,
                                   !.seen = IF m \in MsgIds /\ hist.seen[m] < 2
                                            THEN [@ EXCEPT ![m] = @ + 1] ELSE @],
                                FALSE)
          /\ pc' = IF pc = "wa_loop" THEN "wa_gate" ELSE "ms_gate"
    /\ UNCHANGED <<env, processed_messages, disk, s3, nuuid, waiting, arrived,
                   pl, presult, ops, parked>>

\* Lines 148 and 257: `if message_id in processed_messages`
AlreadyProcessedNever(m, done) == FALSE

AlreadyProcessed(m, done) == m \in done

\* Lines 151 and 260: `processed_messages.add(message_id)`
GateInsertNothing(done, m) == done

GateInsert(done, m) == done \cup {m}

\* Lines 145-152 and 254-261: the dedup gate.  No await stands between the
\* test and the insert, so no other handler runs between them.
WhGate ==
    /\ pc \in {"wa_gate", "ms_gate"}
    /\ LET m == h.message_id
           back == IF pc = "wa_gate" THEN "wa_loop" ELSE "ms_loop"
           on == IF pc = "wa_gate" THEN "wa_route" ELSE "ms_route"
       IN IF ~Truthy(m)
          THEN /\ pc' = back
               /\ h' = [h EXCEPT !.last = "no id"]
               /\ UNCHANGED <<processed_messages, hist>>
          ELSE IF AlreadyProcessed(m, processed_messages)
          THEN /\ pc' = back
               /\ h' = [h EXCEPT !.last = "duplicate"]
               /\ UNCHANGED <<processed_messages, hist>>
          ELSE /\ processed_messages' = GateInsert(processed_messages, m)
               /\ pc' = on
               /\ h' = [h EXCEPT !.last = "passed", !.passed = @ \cup {m}]
               /\ hist' = [hist EXCEPT !.passes[m] = @ + 1,
                                       !.passArrived[m] = arrived]
    /\ UNCHANGED <<env, disk, s3, nuuid, waiting, arrived, pl, presult, ops,
                   parked>>

\* A POST to the channel's send API for the event being handled; whether it
\* succeeds is read only after send_whatsapp_audio.
Posted(hh, m, n) == [hh EXCEPT !.sends[m] = @ + n]
Sent(hh, m, n, token) == HistAtCall(IF token THEN Posted(hh, m, n) ELSE hh)
Called(hh, m) == HistAtCall([hh EXCEPT !.invs[m] = @ + 1])

\* The sender an event names: events with different ids come from different
\* senders.
SenderOf(m) == IF m = "wamid.abc" THEN "u1" ELSE "u2"

\* Where a send goes.  send_whatsapp_message and send_whatsapp_audio (333-390)
\* POST to the URL of phone_number_id with the recipient in "to";
\* send_text_message and send_audio_message (393-438) POST to the Messenger
\* URL with the recipient's id.
WhatsappPostViaPage(f) == [via |-> "messenger", to |-> f.sender_id, from |-> None]

WhatsappPost(f) ==
    [via |-> "whatsapp", to |-> f.sender_id, from |-> f.phone_number_id]

MessengerPost(f) == [via |-> "messenger", to |-> f.sender_id, from |-> None]

\* The frame after a send: `sent_to` holds where the POSTs made for the event
\* went, `apologies` counts the POSTs of "Sorry, I couldn't process your
\* request / audio."; without the channel's token no POST is made.
Noted(f, token, post, apology) ==
    IF token
    THEN [f EXCEPT !.sent_to = @ \cup {post},
                   !.apologies = @ + (IF apology THEN 1 ELSE 0)]
    ELSE f

\* handle_interview has returned to the handler.
Returned ==
    /\ pl' = PlIdle
    /\ presult' = NoResult
    /\ ops' = NoOps
    /\ nuuid' = SkipUuids(nuuid)

\* Lines 242-246: the finally block of the WhatsApp audio branch.
WaFinallyKeepsWav(d, f) ==
    IF f.branch = "audio" THEN RemoveIfSet(d, f.temp_audio_path) ELSE d

WaFinallyKeepsOgg(d, f) ==
    IF f.branch = "audio" THEN RemoveIfSet(d, f.temp_wav_path) ELSE d

WaFinally(d, f) ==
    IF f.branch = "audio"
    THEN RemoveIfSet(RemoveIfSet(d, f.temp_audio_path), f.temp_wav_path)
    ELSE d

\* Lines 154-165 and 181-183: sender and routing context, then the branch
\* on the message type.
WaRoute ==
    /\ pc = "wa_route"
    /\ \E sender \in {None, SenderOf(h.message_id)}, pnid \in {None, "pn1"} :
         IF ~Truthy(sender) \/ ~Truthy(pnid)
         THEN /\ h' = [h EXCEPT !.sender_id = sender, !.phone_number_id = pnid,
                                !.last = "no sender"]
              /\ pc' = "wa_loop"
              /\ UNCHANGED <<pl, presult, ops, hist>>
         ELSE \E type \in {"text", "image"}
                          \cup IF hist.audio < MaxAudio THEN {"audio"} ELSE {},
                    u \in {FALSE} \cup {hist.faulty < MaxFaulty} :
                LET f == [h EXCEPT !.sender_id = sender, !.phone_number_id = pnid,
                                   !.branch = type]
                    m == h.message_id
                IN CASE type = "text" ->
                          \E body \in {None, "hi"} :
                            /\ Invoke(NoPath, body, "wa_called")
                            /\ h' = f
                            /\ hist' = Begin([Called(hist, m) EXCEPT
                                                !.kind[m] = "wa_text"], u)
                     [] type = "audio" ->
                          /\ pc' = "wa_download"
                          /\ h' = f
                          /\ hist' = Begin([hist EXCEPT !.kind[m] = "wa_audio",
                                                        !.audio = @ + 1], u)
                          /\ UNCHANGED <<pl, presult, ops>>
                     [] OTHER ->
                          /\ pc' = "wa_loop"
                          /\ ~u
                          /\ h' = [f EXCEPT !.last = "unsupported"]
                          /\ hist' = [hist EXCEPT !.kind[m] = "other"]
                          /\ UNCHANGED <<pl, presult, ops>>
    /\ UNCHANGED <<env, processed_messages, disk, s3, nuuid, waiting, arrived,
                   parked>>

\* Lines 238-246: the except and finally blocks of the audio branch.
WaAudioFailed(f, d) ==
    /\ hist' = IF env.whatsapp THEN Posted(hist, f.message_id, 1) ELSE hist
    /\ disk' = WaFinally(d, f)
    /\ h' = Noted([f EXCEPT !.last = "apology"], env.whatsapp, WhatsappPost(f),
                  TRUE)
    /\ pc' = "wa_loop"

\* Lines 182-197: the media is downloaded (download_whatsapp_audio, 441-474)
\* and written to a fresh .ogg file.
WaDownload ==
    /\ pc = "wa_download"
    /\ \E audio_id \in {None, "media1"},
          got \in Outcomes({"small", "audio"}, {"nothing"}) :
         IF ~Truthy(audio_id) \/ ~env.whatsapp \/ got = "nothing"
         THEN /\ WaAudioFailed(h, disk)
              /\ UNCHANGED nuuid
         ELSE LET p == Path(nuuid + 1, "ogg")
                  size == IF got = "small" THEN MinMediaBytes - 1 ELSE MinMediaBytes
              IN /\ nuuid' = IF size < MinMediaBytes THEN SkipUuids(nuuid)
                              ELSE nuuid + 1
                 /\ IF size < MinMediaBytes
                    THEN WaAudioFailed([h EXCEPT !.temp_audio_path = p],
                                       disk \cup {File(p, size)})
                    ELSE /\ disk' = disk \cup {File(p, size)}
                         /\ h' = [h EXCEPT !.temp_audio_path = p]
                         /\ pc' = "wa_convert"
                         /\ UNCHANGED hist
    /\ UNCHANGED <<env, processed_messages, s3, waiting, arrived, pl, presult,
                   ops, parked>>

\* Lines 201-219: the strategies tried, in order, each with its outcome:
\* the codec library, and ffmpeg in the except clause of the library's try.
Strategies(lib, tool) ==
    IF lib = "ok" THEN <<<<"pydub", lib>>>>
    ELSE <<<<"pydub", lib>>, <<"ffmpeg", tool>>>>

\* Lines 200-222: .ogg to .wav with the codec library, then with ffmpeg if
\* the library failed; a failed conversion may leave a partial .wav.
\* `codecs` keeps the strategies tried for the event.
WaConvert ==
    /\ pc = "wa_convert"
    /\ \E lib \in Outcomes({"ok"}, {"fail", "partial"}),
          tool \in {"ok", "fail", "partial"} :
       LET w == Path(nuuid + 1, "wav")
           f == [h EXCEPT !.temp_wav_path = w, !.codecs = Strategies(lib, tool)]
       IN   /\ lib = "ok" => tool = "ok"
            /\ nuuid' = IF lib = "ok" \/ tool = "ok" THEN nuuid + 1
                         ELSE SkipUuids(nuuid)
            /\ IF lib = "ok" \/ tool = "ok"
               THEN /\ disk' = disk \cup {File(w, 2 * MinAudioBytes)}
                    /\ Invoke(w, None, "wa_called")
                    /\ h' = f
                    /\ hist' = Called(hist, h.message_id)
               ELSE /\ WaAudioFailed(f, IF "partial" \in {lib, tool}
                                        THEN disk \cup {File(w, 0)} ELSE disk)
                    /\ UNCHANGED <<pl, presult, ops>>
    /\ UNCHANGED <<env, processed_messages, s3, waiting, arrived, parked>>

\* Lines 165-178 and 222-246: the reply after handle_interview.
WaReturn ==
    /\ pc = "wa_called"
    /\ pl.ppc = "returned"
    /\ Returned
    /\ LET m == h.message_id IN
       IF presult.status = "ok"
       THEN /\ hist' = Sent(hist, m, 1, env.whatsapp)
            /\ IF TruthyUrl(presult.response.audio_url) /\ env.whatsapp
               THEN /\ pc' = "wa_validate"
                    /\ h' = Noted([h EXCEPT !.response = presult.response,
                                            !.attempt = 0, !.last = "answer"],
                                  env.whatsapp, WhatsappPost(h), FALSE)
                    /\ UNCHANGED disk
               ELSE /\ pc' = "wa_loop"
                    /\ h' = Noted([h EXCEPT !.last = "answer"],
                                  env.whatsapp, WhatsappPost(h), FALSE)
                    /\ disk' = WaFinally(disk, h)
       ELSE /\ hist' = Sent(hist, m, 1, env.whatsapp)
            /\ pc' = "wa_loop"
            /\ h' = Noted([h EXCEPT !.last = "apology"],
                          env.whatsapp, WhatsappPost(h), TRUE)
            /\ disk' = WaFinally(disk, h)
    /\ UNCHANGED <<env, processed_messages, s3, waiting, arrived, parked>>

\* Lines 318-322: status 200 with a Content-Type that holds one of the
\* valid audio types.
HeadAcceptsAnyType(head) == head \in {"audio", "other type"}

HeadAccepts(head) == head = "audio"

\* validate_audio_url (305-330), one HEAD request; then lines 169-174 and
\* 226-231: the audio is sent, or the apology in its place.  `heads` counts
\* the HEAD requests, `head` is the last answer, `valid` what
\* validate_audio_url returned, `audio_send` what send_whatsapp_audio did.
WaValidate ==
    /\ pc = "wa_validate"
    /\ LET m == h.message_id
           done(f, n) ==
               /\ hist' = Posted(hist, m, n)
               /\ h' = Noted([f EXCEPT !.response = NoResponse],
                             TRUE, WhatsappPost(h), FALSE)
               /\ disk' = WaFinally(disk, h)
               /\ pc' = "wa_loop"
       IN \E head \in Outcomes({"audio"}, {"other type", "failed"}) :
            LET g == [h EXCEPT !.heads = @ + 1, !.head = head] IN
            CASE HeadAccepts(head) ->
                   \E sent \in Outcomes({TRUE}, {FALSE}) :
                     done([g EXCEPT !.valid = "true",
                                    !.audio_send = IF sent THEN "ok" ELSE "failed",
                                    !.last = IF sent THEN "audio" ELSE "audio apology"],
                          IF sent THEN 1 ELSE 2)
              [] head = "other type" ->
                   done([g EXCEPT !.valid = "false", !.last = "audio apology"], 1)
              [] OTHER ->
                   IF h.attempt + 1 < retries
                   THEN /\ h' = [g EXCEPT !.attempt = @ + 1]
                        /\ UNCHANGED <<hist, disk, pc>>
                   ELSE done([g EXCEPT !.valid = "false",
                                       !.last = "audio apology"], 1)
    /\ UNCHANGED <<env, processed_messages, s3, nuuid, waiting, arrived, pl,
                   presult, ops, parked>>

\* Lines 263-280: the sender, then text or attachments.
MsRoute ==
    /\ pc = "ms_route"
    /\ \E sender \in {None, SenderOf(h.message_id)} :
         IF ~Truthy(sender)
         THEN /\ h' = [h EXCEPT !.sender_id = sender, !.last = "no sender"]
              /\ pc' = "ms_loop"
              /\ UNCHANGED <<pl, presult, ops, hist>>
         ELSE \E content \in {"text", "attachments", "none"},
                    u \in {FALSE} \cup {hist.faulty < MaxFaulty} :
                LET f == [h EXCEPT !.sender_id = sender, !.branch = content,
                                   !.natt = 0]
                    m == h.message_id
                IN CASE content = "text" ->
                          /\ Invoke(NoPath, "hi", "ms_called")
                          /\ h' = f
                          /\ hist' = Begin([Called(hist, m) EXCEPT
                                                !.kind[m] = "ms_text"], u)
                     [] content = "attachments" ->
                          /\ pc' = "ms_attach"
                          /\ ~u
                          /\ h' = f
                          /\ hist' = [hist EXCEPT !.kind[m] = "ms_attachments"]
                          /\ UNCHANGED <<pl, presult, ops>>
                     [] OTHER ->
                          /\ pc' = "ms_loop"
                          /\ ~u
                          /\ h' = [f EXCEPT !.last = "unsupported"]
                          /\ hist' = [hist EXCEPT !.kind[m] = "other"]
                          /\ UNCHANGED <<pl, presult, ops>>
    /\ UNCHANGED <<env, processed_messages, disk, s3, nuuid, waiting, arrived,
                   parked>>

\* Line 283: `attachment["payload"]["url"]` stands before the try of line
\* 285: a missing key raises through the loops to lines 300-302.
UrlMissingStatus == 500

\* Lines 281-288: the next attachment; an audio attachment is fetched to a
\* fresh .mp3 file and handed to handle_interview.
MsAttach ==
    /\ pc = "ms_attach"
    /\ \/ /\ pc' = "ms_loop"
          /\ UNCHANGED <<h, disk, nuuid, pl, presult, ops, hist>>
       \/ /\ h.natt < MaxAttach
          /\ \E type \in {"image"} \cup IF hist.audio < MaxAudio THEN {"audio"} ELSE {},
                hasUrl \in BOOLEAN, u \in {FALSE} \cup {hist.faulty < MaxFaulty},
                got \in {"small", "audio", "failed", "partial"} :
               LET f == [h EXCEPT !.natt = @ + 1]
                   p == Path(nuuid + 1, "mp3")
                   m == h.message_id
               IN CASE type = "image" ->
                         /\ ~u /\ hasUrl /\ got = "audio"
                         /\ h' = f
                         /\ UNCHANGED <<pc, disk, nuuid, pl, presult, ops, hist>>
                    [] ~hasUrl ->
                         /\ ~u /\ got = "audio"
                         /\ h' = [f EXCEPT !.status = UrlMissingStatus,
                                           !.last = "raised"]
                         /\ pc' = "wh_done"
                         /\ hist' = [hist EXCEPT !.audio = @ + 1]
                         /\ UNCHANGED <<disk, nuuid, pl, presult, ops>>
                    [] got \in {"failed", "partial"} ->
                         /\ u
                         /\ nuuid' = SkipUuids(nuuid)
                         /\ h' = Noted([f EXCEPT !.audio_path = p,
                                                 !.last = "apology"],
                                       env.messenger, MessengerPost(f), TRUE)
                         /\ hist' = Begin([IF env.messenger THEN Posted(hist, m, 1)
                                            ELSE hist EXCEPT !.audio = @ + 1], u)
                         /\ UNCHANGED <<pc, disk, pl, presult, ops>>
                    [] OTHER ->
                         /\ nuuid' = nuuid + 1
                         /\ disk' = disk \cup {File(p, IF got = "small" THEN 50
                                                      ELSE MinAudioBytes)}
                         /\ Invoke(p, None, "ms_called")
                         /\ h' = [f EXCEPT !.audio_path = p]
                         /\ hist' = Begin([Called(hist, m) EXCEPT !.audio = @ + 1], u)
    /\ UNCHANGED <<env, processed_messages, s3, waiting, arrived, parked>>

\* Lines 272-278 and 288-297: the reply after handle_interview.
MsReturn ==
    /\ pc = "ms_called"
    /\ pl.ppc = "returned"
    /\ Returned
    /\ LET m == h.message_id
           n == IF presult.status = "ok" /\ TruthyUrl(presult.response.audio_url)
                THEN 2 ELSE 1
       IN /\ hist' = Begin(Sent(hist, m, n, env.messenger), FALSE)
          /\ h' = Noted([h EXCEPT !.last = IF presult.status = "ok"
                                           THEN "answer" ELSE "apology"],
                        env.messenger, MessengerPost(h), presult.status # "ok")
    /\ disk' = IF h.branch = "attachments" THEN RemoveIfSet(disk, h.audio_path)
               ELSE disk
    /\ pc' = IF h.branch = "attachments" THEN "ms_attach" ELSE "ms_loop"
    /\ UNCHANGED <<env, processed_messages, s3, waiting, arrived, parked>>

(***************************************************************************)
(* GET /webhook: verify_webhook (main.py 118-129).  The handler has no     *)
(* await: it runs from the request to the response in one step.            *)
(***************************************************************************)
Secret == "s3cret"
\* Line 29: os.getenv gives None for a variable that is not set.
VERIFY_TOKEN == IF env.verify THEN Secret ELSE None

\* Line 124: `mode == "subscribe" and token == VERIFY_TOKEN`
Verified(mode, token) == mode = "subscribe" /\ token = VERIFY_TOKEN

\* str.isdigit()
IsDigit(c) == c \in {"123"}

\* Lines 120-129: query_params.get gives None for a missing parameter.  The
\* body is the challenge as a JSON number or as a JSON string; with the
\* challenge missing, challenge.isdigit() raises AttributeError and the
\* handler of lines 50-61 answers 500.
VerifyWebhook ==
    /\ pc = "idle"
    /\ waiting > 0
    /\ waiting' = waiting - 1
    /\ \E mode \in {None, "subscribe"},
          token \in {None, Secret, "wrong"},
          challenge \in {None, "123", "abc"} :
         LET f == [mode |-> mode, token |-> token, challenge |-> challenge]
         IN h' = IF Verified(mode, token)
                 THEN IF challenge = None
                      THEN f @@ [status |-> 500, json |-> "detail", body |-> ""]
                      ELSE f @@ [status |-> 200,
                                 json |-> IF IsDigit(challenge) THEN "number"
                                          ELSE "string",
                                 body |-> challenge]
                 ELSE f @@ [status |-> 403, json |-> "detail", body |-> ""]
    /\ pc' = "vf_done"
    /\ UNCHANGED <<env, processed_messages, disk, s3, nuuid, arrived, pl,
                   presult, ops, parked, hist>>

Next ==
    \/ Arrive
    \/ Respond
    \/ VerifyWebhook
    \/ DiStart
    \/ DiAudioCheck
    \/ DiSuspend
    \/ DiResume
    \/ DiCallAudio
    \/ DiCallText
    \/ DiReturn
    \/ WhStart
    \/ WhNext
    \/ WhGate
    \/ WaRoute
    \/ WaDownload
    \/ WaConvert
    \/ WaReturn
    \/ WaValidate
    \/ MsRoute
    \/ MsAttach
    \/ MsReturn
    \/ PlValidate
    \/ PlUpload
    \/ PlStartJob
    \/ PlPoll
    \/ PlAfterPoll
    \/ PlHead
    \/ PlDownload
    \/ PlGenerate
    \/ PlSynthesize
    \/ PlConvert
    \/ PlUploadOut
    \/ PlCleanup

Spec == Init /\ [][Next]_vars

\* A client that sends its next request when the server is idle.
ArriveIdle ==
    /\ pc = "idle"
    /\ waiting = 0
    /\ Arrive

NextPipeline ==
    \/ CallPipeline
    \/ CallReturns
    \/ ArriveIdle
    \/ Respond
    \/ DiStart
    \/ DiAudioCheck
    \/ DiSuspend
    \/ DiResume
    \/ DiCallAudio
    \/ DiCallText
    \/ DiReturn
    \/ PlValidate
    \/ PlUpload
    \/ PlStartJob
    \/ PlPoll
    \/ PlAfterPoll
    \/ PlHead
    \/ PlDownload
    \/ PlGenerate
    \/ PlSynthesize
    \/ PlConvert
    \/ PlUploadOut
    \/ PlCleanup

SpecPipeline == InitPipeline /\ [][NextPipeline]_vars

(***************************************************************************)
(* Properties.                                                             *)
(***************************************************************************)
Quiet == pc = "idle"
TextKinds == {"wa_text", "ms_text"}
TokenFor(kind) == IF kind = "wa_text" THEN env.whatsapp ELSE env.messenger
DirectStates ==
    {"di_audio", "di_text", "di_read", "di_resumed", "di_called", "di_done"}
Populated(f) ==
    (IF f.audio # NoUpload THEN 1 ELSE 0) + (IF Truthy(f.text) THEN 1 ELSE 0)
    + (IF Truthy(f.question) THEN 1 ELSE 0)
\* The key a public URL of the bucket points to.
UrlKey(url) == SubSeq(url, 4, Len(url))
OpsNamed(names) == {o \in ops : o.op \in names}

\* C1 (as stated): once an event id has been delivered twice and the server
\* is idle again, handle_interview has been called exactly once for it and
\* exactly one message has been sent to its sender.
C1_ExactlyOneOfEach ==
    Quiet => \A m \in MsgIds :
               hist.seen[m] = 2 => hist.invs[m] = 1 /\ hist.sends[m] = 1

\* C1 (amended): an event id delivered twice passes the dedup gate exactly
\* once over both deliveries; if the event that passed was a text message
\* on a channel whose token is configured, handle_interview has been called
\* exactly once for it and exactly one message has been sent to its sender.
C1_OnePassPerId ==
    Quiet => \A m \in MsgIds :
               hist.seen[m] = 2 =>
                 /\ hist.passes[m] = 1
                 /\ hist.kind[m] \in TextKinds /\ TokenFor(hist.kind[m]) =>
                      hist.invs[m] = 1 /\ hist.sends[m] = 1

C1_DeliveredTwice ==
    /\ Quiet
    /\ \E m \in MsgIds :
         /\ hist.seen[m] = 2
         /\ hist.kind[m] \in TextKinds /\ TokenFor(hist.kind[m])
         /\ hist.invs[m] = 1 /\ hist.sends[m] = 1

\* C2: the step that handles an event whose id is already in
\* processed_messages goes straight back to the loop over the events: no
\* file is written, no uuid drawn, no object stored, handle_interview is not
\* called, nothing is sent, and processed_messages is unchanged.
C2_DuplicateIsNoOp ==
    [][(/\ pc \in {"wa_gate", "ms_gate"}
        /\ h.message_id \in processed_messages
        /\ pc' # pc)
       => /\ pc' = (IF pc = "wa_gate" THEN "wa_loop" ELSE "ms_loop")
          /\ UNCHANGED <<processed_messages, disk, s3, nuuid, pl, presult, ops>>
          /\ hist'.invs = hist.invs
          /\ hist'.sends = hist.sends
          /\ hist'.audio = hist.audio]_vars

C2_DuplicateDropped ==
    /\ pc \in {"wa_loop", "ms_loop"}
    /\ h.last = "duplicate"
    /\ h.message_id \in processed_messages
    /\ hist.invs[h.message_id] > 0

\* C3 (as stated): the membership test and the insert are separate steps:
\* when a delivery passes the test its id is not yet in the set.
C3_TestThenInsert ==
    [][\A m \in MsgIds :
         hist'.passes[m] = hist.passes[m] + 1 => m \notin processed_messages']_vars

\* C3 (amended): the test and the insert are one step of the event loop, so
\* however the deliveries overlap, an id passes the gate at most once, and
\* it is in processed_messages exactly when it has passed.
C3_AtMostOnePass ==
    \A m \in MsgIds :
      /\ hist.passes[m] <= 1
      /\ hist.passes[m] = 1 <=> m \in processed_messages

\* Two overlapping deliveries of one id: the handler that drops it had
\* already been accepted when the other handler passed it.
C3_OverlappingDeliveries ==
    /\ pc \in {"wa_loop", "ms_loop"}
    /\ h.last = "duplicate"
    /\ h.message_id \notin h.passed
    /\ arrived - waiting <= hist.passArrived[h.message_id]

\* C4: when handle_interview is over, returned or raised, none of the local
\* files written during the call (transcript JSON, synthesized MP3,
\* transcoded OGG) exists, and neither does the source audio file.
C4_NoLocalFileLeft ==
    pl.ppc = "returned" =>
      \A p \in hist.created \cup {pl.audio_path} : p = NoPath \/ ~Exists(p)

C4_FailedAtLastStage ==
    /\ pl.ppc = "returned"
    /\ pl.raised
    /\ TruthyPath(pl.audio_path)
    /\ Cardinality(hist.created) = 3

\* C5 (as stated): after a successful call with audio input the object the
\* returned URL points to is in the bucket, and the uploaded source audio
\* and the transcript output are not.
C5_IntermediatesGone ==
    pl.ppc = "returned" /\ presult.status = "ok" /\ TruthyPath(pl.audio_path) =>
      /\ UrlKey(presult.response.audio_url) \in s3
      /\ pl.audio_key \notin s3
      /\ pl.transcript_key \notin s3

\* C5 (amended): after a successful call with audio input the returned URL
\* points to the object audio/output/<uuid>.ogg this call uploaded, which is
\* in the bucket; the uploaded source audio and the transcript output are
\* not, except those whose delete_object failed.
C5_IntermediatesGoneUnlessDeleteFailed ==
    pl.ppc = "returned" /\ presult.status = "ok" /\ TruthyPath(pl.audio_path) =>
      LET key == UrlKey(presult.response.audio_url) IN
      /\ presult.response.audio_url = PublicUrl(key)
      /\ key \in s3
      /\ Op("upload_file", bucket_name, key) \in ops
      /\ Len(key) = 3 /\ key[1] = "audio" /\ key[2] = "output"
      /\ \A k \in {pl.audio_key, pl.transcript_key} :
           k \in s3 => k \in hist.del_failed

C5_SucceededWithAudio ==
    /\ pl.ppc = "returned"
    /\ presult.status = "ok"
    /\ TruthyPath(pl.audio_path)
    /\ hist.del_failed = {pl.audio_key}
    /\ pl.transcript_key \notin s3

\* C6: when the job's result URI names another bucket than the configured
\* one, handle_interview raises, and it makes no head_object and no
\* download_file call.
C6_FailsClosed ==
    pl.transcript_bucket \notin {None, bucket_name} =>
      /\ pl.raised
      /\ OpsNamed({"head_object", "download_file"}) = {}
      /\ pl.ppc = "returned" => presult.status = "error"

C6_OtherBucketRejected ==
    /\ pl.ppc = "returned"
    /\ pl.transcript_bucket = OtherBucket
    /\ presult.status = "error"

\* C7: the poll loop ends after at most 60 polls; a job still IN_PROGRESS
\* after the 60th makes handle_interview raise, without invoking the model.
C7_PollBudget ==
    /\ pl.ppc \in {"poll", "after_poll"} => pl.attempt <= max_attempts
    /\ hist.exhausted =>
         /\ pl.job_status = "IN_PROGRESS"
         /\ pl.ppc \in {"after_poll", "cleanup", "returned"}
         /\ pl.ppc = "after_poll" => pl.attempt = max_attempts
         /\ pl.ppc # "after_poll" => pl.raised
         /\ OpsNamed({"invoke_model"}) = {}
         /\ pl.ppc = "returned" => presult.status = "error"

C7_TimedOut ==
    /\ pl.ppc = "returned"
    /\ hist.exhausted
    /\ presult.status = "error"

\* C8: POST /interview answers an audio file whose extension is not .wav or
\* .mp3, or whose size exceeds 10 MiB, with a 4xx status.
C8_BadUploadIsClientError ==
    (/\ pc = "di_done"
     /\ h.checked
     /\ h.audio # NoUpload
     /\ ~ExtensionAccepted(h.audio.ext) \/ TooLarge(h.audio.size))
    => h.status \in 400..499

C8_TextFileAnswered500 ==
    /\ pc = "di_done"
    /\ h.audio # NoUpload
    /\ ~ExtensionAccepted(h.audio.ext)
    /\ h.status = 500

\* C9: POST /interview lets a request through its input check exactly when
\* one of audio, text and question is populated; otherwise it answers 422
\* and does not call handle_interview.  handle_interview raises, before any
\* external call, when both or neither of audio_path and text_input are set.
C9_ExactlyOneInput ==
    /\ pc \in DirectStates =>
         /\ h.checked <=> Populated(h) = 1
         /\ ~h.checked => pc = "di_done" /\ h.status = 422 /\ ~h.invoked
    /\ (/\ pl.ppc \notin {"idle", "validate"}
        /\ TruthyPath(pl.audio_path) <=> Truthy(pl.text_input))
       => /\ pl.raised
          /\ ops = NoOps
          /\ OpsNamed({"upload_file", "invoke_model"}) = {}

C9_AllThreeGiven ==
    /\ pc = "di_done"
    /\ Populated(h) = 3
    /\ h.status = 422

\* C10: every webhook delivery accepted for routing is answered with the
\* success acknowledgement (status 200).
C10_AlwaysAcknowledged ==
    pc = "wh_done" /\ h.routed => h.status = 200

C10_MissingUrlAnswered500 ==
    /\ pc = "wh_done"
    /\ h.routed
    /\ h.last = "raised"
    /\ h.status = 500

\* C11 (as stated): a delivery accepted for routing ends only at the head of
\* its loop over the events, when no event is left; no failure while one
\* event is handled ends the delivery and leaves later events unread.
C11_FailureKeepsBatchGoing ==
    [][pc' = "wh_done" /\ pc \notin {"idle", "wh_done"}
       => pc \in {"wa_loop", "ms_loop"}]_vars

C11_BatchCutShort ==
    /\ pc = "wh_done"
    /\ h.branch = "attachments"
    /\ h.natt > 0
    /\ h.last = "raised"
    /\ hist.events < MaxEvents

(***************************************************************************)
(* The webhook alone, deliveries one after the other, with a handler that  *)
(* keeps running: handle_webhook is sequential code whose blocking calls   *)
(* return or time out, so the step after the current one is always taken.  *)
(***************************************************************************)
HandlerStep ==
    \/ Respond
    \/ WhStart
    \/ WhNext
    \/ WhGate
    \/ WaRoute
    \/ WaDownload
    \/ WaConvert
    \/ WaReturn
    \/ WaValidate
    \/ MsRoute
    \/ MsAttach
    \/ MsReturn
    \/ Pipeline

NextWebhook ==
    \/ ArriveIdle
    \/ Respond
    \/ WhStart
    \/ WhNext
    \/ WhGate
    \/ WaRoute
    \/ WaDownload
    \/ WaConvert
    \/ WaReturn
    \/ WaValidate
    \/ MsRoute
    \/ MsAttach
    \/ MsReturn
    \/ PlValidate
    \/ PlUpload
    \/ PlStartJob
    \/ PlPoll
    \/ PlAfterPoll
    \/ PlHead
    \/ PlDownload
    \/ PlGenerate
    \/ PlSynthesize
    \/ PlConvert
    \/ PlUploadOut
    \/ PlCleanup

InitWebhook ==
    /\ env \in {e \in EnvChoices : e.verify}
    /\ Rest

SpecWebhook == InitWebhook /\ [][NextWebhook]_vars /\ WF_vars(HandlerStep)

\* The positions of handle_webhook between the dedup gate and the return to
\* the loop over the events: the event is being processed (ROUTED).
RoutedStates ==
    {"wa_route", "wa_download", "wa_convert", "wa_called", "wa_validate",
     "ms_route", "ms_attach", "ms_called"}
\* How the handler leaves an event: the answer went out (REPLIED), the
\* apology went out in its place (REPLY_FAILED_APOLOGY_SENT), nothing went
\* out (REPLY_FAILED_SILENT).
RepliedEnds == {"answer", "audio", "audio apology"}
ApologyEnds == {"apology"}
SilentEnds == {"no sender", "unsupported", "raised", "passed"}
Ended(m) ==
    /\ pc \in {"wa_loop", "ms_loop", "wh_done"}
    /\ h.message_id = m
    /\ h.last \in RepliedEnds \cup ApologyEnds \cup SilentEnds

C13_TextInputOnlyGenerates ==
    /\ []((pc = "called" /\ ~TruthyPath(pl.audio_path) /\ Truthy(pl.text_input)) =>
           /\ {o.op : o \in ops} \subseteq {"invoke_model"}
           /\ pl.generated <= 1
           /\ (pl.ppc = "returned" /\ ~pl.raised) =>
                /\ pl.generated = 1
                /\ \E i \in DOMAIN pl.prompt : pl.prompt[i] = pl.text_input
                /\ presult.status = "ok"
                /\ presult.response.text = pl.answer
                /\ Truthy(presult.response.text)
                /\ presult.response.audio_url = NoUrl)
    /\ [][(/\ pc = "called" /\ pc' = "called"
           /\ ~TruthyPath(pl.audio_path) /\ Truthy(pl.text_input))
          => UNCHANGED <<s3, disk>>]_vars

C13_TextAnswered ==
    /\ pc = "called"
    /\ pl.ppc = "returned"
    /\ pl.text_input = "q"
    /\ pl.generated = 1
    /\ presult.status = "ok"
    /\ presult.response.audio_url = NoUrl

\* C14: when handle_interview is given only an audio file that is smaller
\* than 1000 bytes or whose extension is neither wav nor mp3, the validation
\* step raises before audio_key is assigned, with no external call made and
\* the bucket untouched; and a call that raised before audio_key was
\* assigned makes no external call up to its return: no upload, no
\* transcription job, no generation, no synthesis and no delete_object.
C14_InvalidAudioRejectedFirst ==
    /\ [][(/\ pl.ppc = "validate" /\ pl'.ppc # "validate"
           /\ TruthyPath(pl.audio_path) /\ ~Truthy(pl.text_input)
           /\ Exists(pl.audio_path)
           /\ \/ GetSize(pl.audio_path) < 1000
              \/ Lower(pl.audio_path.ext) \notin {"wav", "mp3"})
          => /\ pl'.ppc = "cleanup" /\ pl'.raised
             /\ pl'.audio_key = NoKey /\ pl'.transcript_key = NoKey
             /\ ops' = NoOps
             /\ s3' = s3]_vars
    /\ [][(/\ pl.ppc = "cleanup" /\ pl'.ppc # "cleanup"
           /\ TruthyPath(pl.audio_path) /\ pl.raised /\ pl.audio_key = NoKey)
          => /\ pl'.ppc = "returned"
             /\ ops' = NoOps
             /\ s3' = s3
             /\ presult'.status = "error"]_vars

C14_SmallFileRejected ==
    /\ pl.ppc = "returned"
    /\ pl.raised
    /\ pl.audio_path.ext = "wav"
    /\ ~Truthy(pl.text_input)
    /\ pl.audio_key = NoKey
    /\ ops = NoOps
    /\ presult.status = "error"

\* C15 (as stated): GET /webhook answers 200 with the challenge when
\* hub.mode is "subscribe", the secret is configured, hub.verify_token equals
\* it and a challenge is given; in every other case it answers with a 4xx
\* status and the body is not the challenge.
C15_ChallengeOnlyForSecret ==
    pc = "vf_done" =>
      IF /\ h.mode = "subscribe" /\ env.verify /\ h.token = Secret
         /\ h.challenge # None
      THEN h.status = 200 /\ h.body = h.challenge
      ELSE h.status \in 400..499 /\ h.json = "detail"

C15_EchoWithoutSecret ==
    /\ pc = "vf_done"
    /\ ~env.verify
    /\ h.token = None
    /\ h.status = 200
    /\ h.body = h.challenge

\* C16: a response returned by handle_interview carries an audio URL exactly
\* when the call had an audio input; a call with audio input whose answer
\* was generated but whose synthesis, transcoding or final upload failed
\* returns no response at all: it raises the processing error.
C16_AudioUrlIffAudioInput ==
    pl.ppc = "returned" =>
      /\ presult.status = "ok" =>
           /\ TruthyUrl(presult.response.audio_url) <=> TruthyPath(pl.audio_path)
           /\ Truthy(presult.response.text)
      /\ (/\ TruthyPath(pl.audio_path) /\ pl.generated = 1 /\ Truthy(pl.answer)
          /\ ~TruthyUrl(pl.response_data.audio_url)) =>
           /\ pl.raised
           /\ presult.status = "error"
           /\ presult.response = NoResponse

C16_SynthesisFailed ==
    /\ pl.ppc = "returned"
    /\ Truthy(pl.answer)
    /\ TruthyPath(pl.output_audio)
    /\ ~TruthyPath(pl.output_ogg)
    /\ OpsNamed({"text-to-speech"}) # {}
    /\ presult.status = "error"

C18_InsertedBeforeProcessing ==
    /\ [](pc \in RoutedStates => h.message_id \in processed_messages)
    /\ [][(/\ pc \in {"wa_gate", "ms_gate"} /\ pc' # pc
           /\ Truthy(h.message_id)
           /\ hist.passes[h.message_id] > 0)
          => /\ pc' \in {"wa_loop", "ms_loop"}
             /\ h'.last = "duplicate"
             /\ UNCHANGED <<processed_messages, pl, ops, hist>>]_vars

C18_RedeliveryWaitsDuringCall ==
    /\ pc \in {"wa_called", "ms_called"}
    /\ pl.ppc = "generate"
    /\ waiting > 0
    /\ h.message_id \in processed_messages

\* C19: processed_messages is empty at the start and never loses an
\* element; it changes only at the dedup gate, by the id of the event that
\* passes it, so it holds exactly the ids that have passed; an event that is
\* then dropped for a missing sender or an unsupported type, or answered
\* with an apology, leaves its id in the set.
C19_SetOnlyGrowsAtGate ==
    /\ processed_messages = {}
    /\ [][processed_messages \subseteq processed_messages']_vars
    /\ [][processed_messages' # processed_messages
          => /\ pc \in {"wa_gate", "ms_gate"}
             /\ pc' \in {"wa_route", "ms_route"}
             /\ processed_messages' = processed_messages \cup {h.message_id}]_vars
    /\ [](processed_messages = {m \in MsgIds : hist.passes[m] = 1})
    /\ []((/\ pc \in {"wa_loop", "ms_loop", "wh_done"}
           /\ h.last \in {"no sender", "unsupported", "apology", "raised"})
          => h.message_id \in processed_messages)

C19_DroppedEventStaysInSet ==
    /\ Quiet
    /\ \E m \in MsgIds :
         /\ hist.seen[m] = 2
         /\ hist.kind[m] \in {"none", "other"}
         /\ hist.invs[m] = 0
         /\ m \in processed_messages

\* C20 (as stated): every delete_object call of handle_interview names an
\* object this call created as intermediate state (the source audio it
\* uploaded, the transcript output of its own job), whatever result URI the
\* job reported; an object of the bucket that no call created is never
\* deleted.
C20_DeletesOnlyOwnObjects ==
    /\ ForeignKey \in s3
    /\ \A o \in OpsNamed({"delete_object"}) :
         o.key \in {pl.audio_key, JobKey(pl.job_name)}

C20_ForeignObjectDeleted ==
    /\ pl.ppc = "returned"
    /\ pl.raised
    /\ pl.transcript_bucket = OtherBucket
    /\ pl.transcript_key = ForeignKey
    /\ OpsNamed({"head_object", "download_file"}) = {}
    /\ Op("delete_object", bucket_name, ForeignKey) \in ops
    /\ ForeignKey \notin s3

\* C21 (as stated): when the job reports its result location as
\* s3://<bucket>/<key> or as the HTTPS URI of the same object on the storage
\* service's host, handle_interview resolves it to that bucket and that key,
\* for every bucket and key; a URI of any other scheme or host makes it
\* raise with no head_object and no download_file call made.
C21_BothFormsSamePair ==
    (pl.ppc \in {"head", "download", "cleanup"} /\ hist.uri # NoUri) =>
      IF \E f \in {"s3", "https-path"}, b \in {bucket_name, OtherBucket},
            k \in {JobKey(pl.job_name), SlashKey(JobKey(pl.job_name)), ForeignKey} :
           hist.uri = Render(f, b, k)
      THEN \E f \in {"s3", "https-path"}, b \in {bucket_name, OtherBucket},
              k \in {JobKey(pl.job_name), SlashKey(JobKey(pl.job_name)), ForeignKey} :
             /\ hist.uri = Render(f, b, k)
             /\ pl.transcript_bucket = b
             /\ pl.transcript_key = k
      ELSE /\ pl.raised
           /\ OpsNamed({"head_object", "download_file"}) = {}

C21_LookalikeHostAccepted ==
    /\ pl.ppc = "download"
    /\ hist.uri.scheme = "https"
    /\ hist.uri.netloc = LookalikeHost
    /\ pl.transcript_bucket = bucket_name
    /\ Op("head_object", bucket_name, pl.transcript_key) \in ops
    /\ ~pl.raised

\* C22: the poll loop makes at most 60 get_transcription_job calls for a job
\* and makes none after an answer of COMPLETED or FAILED; the settle delay
\* is taken only after COMPLETED; a FAILED job makes handle_interview raise
\* with no delay, no head_object, no download_file and no invoke_model call;
\* and head_object and download_file are called only for a job whose last
\* answer was COMPLETED.
C22_PollLoopDiscipline ==
    /\ pl.queries <= max_attempts
    /\ pl.ppc = "poll" =>
         /\ pl.queries = pl.attempt
         /\ pl.job_status \notin {"COMPLETED", "FAILED"}
    /\ pl.ppc = "after_poll" =>
         \/ pl.job_status \in {"COMPLETED", "FAILED"} /\ pl.queries = pl.attempt + 1
         \/ pl.job_status = "IN_PROGRESS" /\ pl.queries = max_attempts
    /\ pl.settled => pl.job_status = "COMPLETED"
    /\ (pl.job_status = "COMPLETED" /\ pl.ppc \notin {"poll", "after_poll"})
         => pl.settled
    /\ pl.job_status = "FAILED" =>
         /\ pl.ppc \in {"after_poll", "cleanup", "returned"}
         /\ pl.ppc # "after_poll" => pl.raised
         /\ ~pl.settled
         /\ OpsNamed({"head_object", "download_file", "invoke_model"}) = {}
         /\ pl.ppc = "returned" => presult.status = "error"
    /\ OpsNamed({"head_object", "download_file"}) # {} =>
         pl.job_status = "COMPLETED"

C22_JobFailed ==
    /\ pl.ppc = "returned"
    /\ pl.job_status = "FAILED"
    /\ pl.raised
    /\ Op("get_transcription_job", bucket_name, NoKey) \in ops
    /\ presult.status = "error"

\* C23: handle_interview calls head_object for the transcript at most 3
\* times; it calls download_file only after a head_object call succeeded; it
\* calls head_object again only after a not-found answer; when the third
\* answer is not-found it raises without downloading; and any other error of
\* head_object makes it raise at once, with no further check and no
\* download.
C23_ExistenceCheckBounded ==
    /\ pl.checks <= max_retries
    /\ pl.ppc = "head" =>
         /\ pl.checks = pl.attempt
         /\ pl.checks < max_retries
         /\ pl.checks > 0 => pl.head = "404"
    /\ pl.ppc = "download" \/ OpsNamed({"download_file"}) # {} =>
         /\ pl.head = "ok"
         /\ pl.checks \in 1..max_retries
    /\ (pl.head = "404" /\ pl.ppc # "head") =>
         /\ pl.checks = max_retries
         /\ pl.raised
         /\ OpsNamed({"download_file", "invoke_model"}) = {}
         /\ pl.ppc = "returned" => presult.status = "error"
    /\ pl.head = "error" =>
         /\ pl.ppc \in {"cleanup", "returned"}
         /\ pl.raised
         /\ OpsNamed({"download_file", "invoke_model"}) = {}
         /\ pl.ppc = "returned" => presult.status = "error"

C23_NotFoundThreeTimes ==
    /\ pl.ppc = "returned"
    /\ pl.head = "404"
    /\ pl.checks = max_retries
    /\ OpsNamed({"download_file"}) = {}
    /\ presult.status = "error"

\* The positions of handle_webhook in its WhatsApp branch.
WaStates ==
    {"wa_loop", "wa_gate", "wa_route", "wa_download", "wa_convert", "wa_called",
     "wa_validate"}

\* C24: in the WhatsApp branch validate_audio_url makes at most 3 HEAD
\* requests and asks again only after a request that failed; it returns true
\* only when the last request was answered 200 with an audio content type;
\* send_whatsapp_audio is called only after it returned true; and the reply
\* step ends with one POST when the audio went out, with the apology as the
\* only POST when the validation failed, and with the apology after the
\* audio POST when that one failed.
C24_AudioOnlyAfterValidation ==
    /\ [](pc \in WaStates =>
           /\ h.heads <= retries
           /\ pc = "wa_validate" =>
                /\ h.heads = h.attempt /\ h.heads < retries
                /\ h.valid = "none" /\ h.audio_send = "none"
                /\ h.heads > 0 => h.head = "failed"
           /\ h.audio_send # "none" => h.valid = "true"
           /\ h.valid = "true" => h.head = "audio" /\ h.heads \in 1..retries
           /\ h.valid = "false" =>
                /\ h.audio_send = "none"
                /\ h.last = "audio apology"
                /\ \/ h.head = "other type"
                   \/ h.head = "failed" /\ h.heads = retries
           /\ h.audio_send = "failed" => h.last = "audio apology"
           /\ h.audio_send = "ok" => h.last = "audio")
    /\ [][pc = "wa_validate" /\ pc' # "wa_validate"
          => /\ pc' = "wa_loop"
             /\ h'.valid \in {"true", "false"}
             /\ hist'.sends[h.message_id] - hist.sends[h.message_id]
                  = (IF h'.audio_send = "failed" THEN 2 ELSE 1)]_vars

C24_UrlNeverValidated ==
    /\ pc = "wa_loop"
    /\ h.valid = "false"
    /\ h.head = "failed"
    /\ h.heads = retries
    /\ h.audio_send = "none"
    /\ h.last = "audio apology"

\* The positions of handle_webhook in its Messenger branch.
MsStates == {"ms_loop", "ms_gate", "ms_route", "ms_attach", "ms_called"}

\* The channel token of the event in frame f, and where a send for that
\* event has to go: to the sender the event names, through the adapter of
\* the channel it came in on.
TokenOf(f) == IF f.object = "page" THEN env.messenger ELSE env.whatsapp
OwnPost(f) ==
    IF f.object = "page"
    THEN [via |-> "messenger", to |-> SenderOf(f.message_id), from |-> None]
    ELSE [via |-> "whatsapp", to |-> SenderOf(f.message_id), from |-> "pn1"]

\* A step in which the processing of a routed event fails: the media
\* download or its size check, the transcoding, handle_interview, or the
\* download of a Messenger attachment.
ProcessingFails ==
    \/ pc \in {"wa_download", "wa_convert"} /\ pc' = "wa_loop"
    \/ /\ pc \in {"wa_called", "ms_called"} /\ pc' # pc
       /\ pl.ppc = "returned" /\ presult.status = "error"
    \/ pc = "ms_attach" /\ pc' = "ms_attach" /\ hist'.audio # hist.audio

\* C25 (as stated): when the handling of an event whose channel token is
\* configured ends after a failure, exactly one apology has been posted for
\* the event, to its own sender on its own channel.
C25_ExactlyOneApology ==
    (pc \in {"wa_loop", "ms_loop"} /\ h.last = "apology" /\ TokenOf(h)) =>
      /\ h.apologies = 1
      /\ h.sent_to = {OwnPost(h)}

\* C25 (amended): every step in which processing fails posts exactly one
\* apology when the channel's token is configured and none when it is not,
\* so a Messenger event gets one apology for each of its audio attachments
\* that fails; and every POST made for an event goes to the event's own
\* sender through the adapter of the event's own channel (for WhatsApp with
\* the event's phone_number_id).
C25_ApologyPerFailedUnit ==
    /\ [](pc \in WaStates \cup MsStates =>
           /\ h.sent_to \subseteq {OwnPost(h)}
           /\ ~TokenOf(h) => h.sent_to = {} /\ h.apologies = 0)
    /\ [][ProcessingFails =>
            LET k == IF TokenOf(h) THEN 1 ELSE 0 IN
            /\ h'.last = "apology"
            /\ h'.apologies = h.apologies + k
            /\ hist'.sends[h.message_id] = hist.sends[h.message_id] + k
            /\ k = 1 => OwnPost(h') \in h'.sent_to]_vars

C25_TwoApologiesForOneEvent ==
    /\ pc = "ms_loop"
    /\ h.branch = "attachments"
    /\ h.natt = 2
    /\ h.apologies = 2
    /\ hist.sends[h.message_id] = 2
    /\ h.sent_to = {OwnPost(h)}

\* The stages of handle_interview in the order of the source, for a call
\* with an audio file and for a call with a text.
AudioStages ==
    <<"validate", "upload", "start_job", "poll", "after_poll", "head",
      "download", "generate", "synthesize", "convert", "upload_out", "cleanup",
      "returned">>
TextStages == <<"validate", "generate", "cleanup", "returned">>
StagesOf(f) == IF TruthyPath(f.audio_path) THEN AudioStages ELSE TextStages

\* C26: a handle_interview call moves from each stage to the next one of the
\* fixed order (audio input: source upload, job submission, polling,
\* result-location validation, existence check, transcript download, answer
\* generation, synthesis, transcoding, final upload, cleanup), or, when the
\* stage raises, straight to cleanup; every external call is made only after
\* the calls of the stages before it; the model is invoked only with a
\* resolved question, the synthesizer only after the model has answered; and
\* the call returns only from cleanup, whose delete_object calls are the
\* last ones made.
C26_StagesInOrder ==
    /\ [](pl.ppc # "idle" =>
           /\ OpsNamed({"invoke_model"}) # {} => Truthy(pl.question)
           /\ OpsNamed({"text-to-speech"}) # {} =>
                /\ OpsNamed({"invoke_model"}) # {}
                /\ pl.generated = 1 /\ Truthy(pl.answer)
           /\ OpsNamed({"pydub"}) # {} =>
                OpsNamed({"text-to-speech"}) # {} /\ TruthyPath(pl.output_audio)
           /\ OpsNamed({"delete_object"}) # {} => pl.ppc = "returned"
           /\ TruthyPath(pl.audio_path) =>
                /\ OpsNamed({"start_transcription_job"}) # {} =>
                     /\ Op("upload_file", bucket_name, pl.audio_key) \in ops
                     /\ TruthyKey(pl.audio_key)
                /\ OpsNamed({"get_transcription_job"}) # {} =>
                     OpsNamed({"start_transcription_job"}) # {}
                /\ OpsNamed({"head_object"}) # {} =>
                     /\ OpsNamed({"get_transcription_job"}) # {}
                     /\ pl.transcript_bucket = bucket_name
                /\ OpsNamed({"download_file"}) # {} =>
                     OpsNamed({"head_object"}) # {} /\ pl.head = "ok"
                /\ OpsNamed({"invoke_model"}) # {} =>
                     OpsNamed({"download_file"}) # {}
                /\ (\E o \in OpsNamed({"upload_file"}) : o.key # pl.audio_key) =>
                     OpsNamed({"pydub"}) # {} /\ TruthyPath(pl.output_ogg))
    /\ [][(pl'.ppc # pl.ppc /\ pl.ppc \notin {"idle", "returned"}) =>
            \/ /\ pl'.ppc = "cleanup"
               /\ pl'.raised /\ ~pl.raised
            \/ /\ pl'.raised = pl.raised
               /\ \E i \in 1..(Len(StagesOf(pl)) - 1) :
                    StagesOf(pl)[i] = pl.ppc /\ StagesOf(pl)[i + 1] = pl'.ppc]_vars
    /\ [][(pl.ppc = "cleanup" /\ pl'.ppc # "cleanup") =>
            /\ pl'.ppc = "returned"
            /\ \A o \in ops' \ ops : o.op = "delete_object"]_vars

C26_AllStagesRun ==
    /\ pl.ppc = "returned"
    /\ presult.status = "ok"
    /\ TruthyUrl(presult.response.audio_url)
    /\ {o.op : o \in ops} =
         {"upload_file", "start_transcription_job", "get_transcription_job",
          "head_object", "download_file", "invoke_model", "text-to-speech",
          "pydub", "delete_object"}

\* The temporary resources a handle_interview frame names: its local files
\* (the input file, the transcript, the synthesized and the transcoded
\* audio) and its objects (the uploaded source, the output of its job, the
\* reply audio).
OwnPaths(f) ==
    {f.audio_path, f.transcript_file, f.output_audio, f.output_ogg} \ {NoPath}
OwnKeys(f) ==
    {f.audio_key, JobKey(f.job_name), UrlKey(f.response_data.audio_url)}
\* The job's result location is the output of the invocation's own job.
OwnLocation(f) == f.transcript_key \in {NoKey, JobKey(f.job_name)}

C28_TranscodingFallback ==
    [][(pc = "wa_convert" /\ pc' # pc) =>
         LET n == Len(h'.codecs)
             m == h.message_id
         IN /\ n \in 1..2
            /\ h'.codecs[1][1] = "pydub"
            /\ n = 2 <=> h'.codecs[1][2] # "ok"
            /\ n = 2 => h'.codecs[2][1] = "ffmpeg"
            /\ pc' \in {"wa_called", "wa_loop"}
            /\ pc' = "wa_called" <=> h'.codecs[n][2] = "ok"
            /\ pc' = "wa_called" =>
                 /\ pl'.ppc = "validate"
                 /\ pl'.audio_path = h'.temp_wav_path
                 /\ h'.temp_wav_path.ext = "wav"
                 /\ File(h'.temp_wav_path, 2 * MinAudioBytes) \in disk'
                 /\ hist'.invs[m] = hist.invs[m] + 1
            /\ pc' = "wa_loop" =>
                 /\ pl' = pl /\ pl.ppc = "idle"
                 /\ hist'.invs[m] = hist.invs[m]
                 /\ h'.last = "apology"
                 /\ h'.apologies = h.apologies + 1
                 /\ hist'.sends[m] = hist.sends[m] + 1
                 /\ Exists(h.temp_audio_path)
                 /\ \A f \in disk' :
                      f.id \notin {h'.temp_audio_path.id, h'.temp_wav_path.id}]_vars

C28_BothStrategiesFailed ==
    /\ pc = "wa_loop"
    /\ h.codecs = <<<<"pydub", "partial">>, <<"ffmpeg", "fail">>>>
    /\ h.last = "apology"
    /\ hist.invs[h.message_id] = 0
    /\ hist.sends[h.message_id] = 1
    /\ TruthyPath(h.temp_wav_path)
    /\ ~Exists(h.temp_wav_path)
    /\ ~Exists(h.temp_audio_path)

\* The positions at which no event is being handled by the running handler:
\* it is idle or has answered, or it stands between two events of a
\* delivery, or before the first file of the event is written.
BetweenEvents ==
    {"idle", "di_done", "vf_done", "wh_done", "wa_loop", "ms_loop", "wa_gate",
     "ms_gate", "wa_route", "ms_route", "wa_download", "ms_attach"}
\* The file a suspended request has written.
HeldBySuspended(f) == \E fr \in parked : fr.temp_audio_path.id = f.id

\* C29: when the handling of an event (a direct upload, a WhatsApp message,
\* a Messenger message or one of its attachments) has ended, on success and
\* on every failure, no file written for it is left: between two events the
\* only local files are those of suspended requests.  So the cleanup of an
\* event finds no file of an earlier event of its batch, and no step of a
\* handler removes or rewrites the file of a suspended request.
C29_RouterFilesRemoved ==
    /\ [](pc \in BetweenEvents => \A f \in disk : HeldBySuspended(f))
    /\ [](pc \in {"di_done", "wa_loop", "ms_loop", "wh_done"} /\ h # <<>> =>
            IF pc = "di_done"
            THEN ~Exists(h.temp_audio_path)
            ELSE /\ ~Exists(h.temp_audio_path)
                 /\ ~Exists(h.temp_wav_path)
                 /\ ~Exists(h.audio_path))
    /\ [][\A fr \in parked \cap parked' :
            \A f \in disk : f.id = fr.temp_audio_path.id => f \in disk']_vars

C29_SecondEventCleanedUp ==
    /\ pc = "wa_loop"
    /\ hist.events = 2
    /\ h.branch = "audio"
    /\ h.last = "apology"
    /\ hist.invs[h.message_id] = 1
    /\ TruthyPath(h.temp_audio_path) /\ ~Exists(h.temp_audio_path)
    /\ TruthyPath(h.temp_wav_path) /\ ~Exists(h.temp_wav_path)
    /\ \E fr \in parked : Exists(fr.temp_audio_path)

====
